---- MODULE Spec2Model ----
(***************************************************************************)
(* Frame synchronisation bridge of bevy-ruby.                              *)
(*                                                                         *)
(* The engine (a Bevy App) runs five systems in its Update schedule:       *)
(* ruby_bridge_system, sprite_sync_system, text_sync_system,               *)
(* mesh_sync_system and camera_sync_system (crates/bevy/src/render_app.rs).*)
(* Script code (Ruby) stages operations in thread-local buffers            *)
(* (ext/bevy/src/ruby_render_app.rs); the frame callback merges them into  *)
(* RubyBridgeState, and the *_sync systems apply them to the World.        *)
(***************************************************************************)
EXTENDS Integers, Sequences, FiniteSets, TLC

\* ------------------------------------------------------------------ bounds
MaxId == 2
MaxOps == 2
MaxApps == 2

\* ------------------------------------------------------------ value domains
Kinds == {"sprite", "text", "mesh"}
Systems == {"bridge", "sprite", "text", "mesh", "camera"}
Ids == 1..MaxId
\* "main" is the thread that called RenderApp#run; "worker" is any other
\* Ruby thread.  Every thread has its own copy of the thread_local! buffers.
Ctx == {"main", "worker"}

\* Payloads a script passes to sync_sprite / sync_text / sync_mesh, after
\* parse_*_data.  Numeric fields are abstracted to named values.
SpritePayloads ==
    { [data |-> [color |-> "red", custom_size |-> "none", flip_x |-> FALSE, flip_y |-> FALSE],
       transform_data |-> [translation |-> "p1", rotation |-> "r1", scale |-> "s1"]],
      [data |-> [color |-> "blue", custom_size |-> "sz", flip_x |-> TRUE, flip_y |-> FALSE],
       transform_data |-> [translation |-> "p2", rotation |-> "r2", scale |-> "s1"]] }

TextPayloads ==
    { [data |-> [content |-> "hello", font_size |-> 24, color |-> "red"],
       transform_data |-> [translation |-> "p1", scale |-> "s1"]],
      [data |-> [content |-> "bye", font_size |-> 32, color |-> "blue"],
       transform_data |-> [translation |-> "p2", scale |-> "s2"]] }

MeshPayloads ==
    { [data |-> [shape_type |-> "Rectangle", color |-> "red", thickness |-> 2, fill |-> TRUE],
       transform_data |-> [translation |-> "p1", rotation |-> "r1", scale |-> "s1"]],
      [data |-> [shape_type |-> "Line", color |-> "blue", thickness |-> 4, fill |-> FALSE],
       transform_data |-> [translation |-> "p2", rotation |-> "r2", scale |-> "s1"]] }

Payloads(k) ==
    CASE k = "sprite" -> SpritePayloads
      [] k = "text"   -> TextPayloads
      [] k = "mesh"   -> MeshPayloads

\* The empty id |-> entity map (HashMap::new()).
EmptyMap == [i \in {} |-> 0]

\* ---------------------------------------------------------------- variables
VARIABLES
    bpc,                \* position of ruby_bridge_system in the current Update
    ran,                \* systems that have completed in the current Update
    lock,               \* holder of Mutex<RubyBridgeState>
    PENDING,            \* thread-local PENDING_SPRITES/TEXTS/MESHES per thread
    pending_operations, \* RubyBridgeState.{sprite,text,mesh}_sync.pending_operations
    entity_map,         \* RubyBridgeState.{sprite,text,mesh}_sync.entity_map
    world,              \* the Bevy World: live entity |-> components
    nextEntity,         \* next entity handle World::spawn hands out
    SHOULD_STOP,        \* thread-local SHOULD_STOP per thread
    CAMERA,             \* thread-local CAMERA_POSITION/SCALE/DIRTY per thread
    PENDING_GAMEPAD_RUMBLE, \* thread-local rumble buffer per thread
    should_exit,        \* RubyBridgeState.should_exit
    camera,             \* RubyBridgeState.camera_position/scale/dirty
    pending_gamepad_rumble, \* RubyBridgeState.pending_gamepad_rumble
    camera_transform,   \* Transform of the Camera2d entity
    rumble_requests,    \* GamepadRumbleRequest events sent in this frame
    app_exit,           \* AppExit::Success has been sent
    keyboard,           \* ButtonInput<KeyCode> resource of this frame
    mouse_buttons,      \* ButtonInput<MouseButton> resource of this frame
    cursor_position,    \* Window::cursor_position() of this frame
    gamepad_query,      \* connected Gamepad entities: id |-> state
    pointer_events,     \* this frame's Pointer<..> events, in arrival order
    input_state,        \* RubyBridgeState.input_state
    picking_events,     \* RubyBridgeState.picking_events
    SHARED_INPUT,       \* thread-local SHARED_INPUT per thread
    SHARED_PICKING_EVENTS, \* thread-local SHARED_PICKING_EVENTS per thread
    drained,            \* history: per thread, picking events read since the copy
    prev_input,         \* history: input_state as the previous frame left it
    RENDER_STATE,       \* thread-local RENDER_STATE per thread: "None" or "Some"
    running,            \* the main thread is inside RenderApp::run
    poisoned,           \* which of the bridge's two mutexes are poisoned
    apps,               \* history: RenderApps created on the main thread so far
    calls,              \* history: invocations of the callback in this frame
    nextSerial,         \* history: per kind, serial number of the next staged op
    applied,            \* history: per kind, serials of the ops applied, in order
    old,                \* history: per kind, serials staged before this frame began
    ref,                \* history: per kind, id |-> components had every op been
                        \*          queued and applied alone, in the order issued
    last                \* history: what the last step did

syncVars == << pending_operations, entity_map, world, nextEntity, applied >>
localVars == << SHOULD_STOP, CAMERA, PENDING_GAMEPAD_RUMBLE >>
bridgeVars == << should_exit, camera, pending_gamepad_rumble >>
outVars == << camera_transform, rumble_requests, app_exit >>
deviceVars == << keyboard, mouse_buttons, cursor_position, gamepad_query,
                 pointer_events >>
snapVars == << input_state, picking_events, prev_input >>
sharedVars == << SHARED_INPUT, SHARED_PICKING_EVENTS, drained >>
inVars == << deviceVars, snapVars, sharedVars >>
appVars == << RENDER_STATE, running, poisoned, apps >>
lifeVars == << appVars, calls >>

vars == << bpc, ran, lock, PENDING, syncVars, localVars, bridgeVars, outVars,
           inVars, lifeVars, nextSerial, old, ref, last >>

\* ------------------------------------------------------------------ helpers
Range(s) == { s[i] : i \in 1..Len(s) }

Serials(s) == { s[i].sn : i \in 1..Len(s) }

RECURSIVE SumOver(_, _)
SumOver(f, S) ==
    IF S = {} THEN 0
    ELSE LET x == CHOOSE y \in S : TRUE
         IN  f[x] + SumOver(f, S \ {x})

\* Number of operations staged so far, over all kinds.
StagedCount == SumOver([k \in Kinds |-> nextSerial[k] - 1], Kinds)

MapPut(m, id, e) ==
    [i \in DOMAIN m \cup {id} |-> IF i = id THEN e ELSE m[i]]

MapDel(m, id) == [i \in DOMAIN m \ {id} |-> m[i]]

MapRange(m) == { m[i] : i \in DOMAIN m }

\* ------------------------------------------------- the entity store (World)
\* A store state is [entity_map, world, nextEntity, spawned, despawned]:
\* the sync's id map, the live entities with their components, the handle
\* allocator, and the handles this apply spawned / asked to despawn.

\* World::spawn: a fresh handle carrying the given components.
Spawn(s, id, comps) ==
    [s EXCEPT !.world = MapPut(s.world, s.nextEntity, comps),
              !.entity_map = MapPut(s.entity_map, id, s.nextEntity),
              !.nextEntity = s.nextEntity + 1,
              !.spawned = s.spawned \cup {s.nextEntity}]

\* World::despawn: removes the entity when it is alive.
Despawn(s, e) ==
    [s EXCEPT !.world = MapDel(s.world, e),
              !.despawned = s.despawned \cup {e}]

SpriteComponents(d, t) ==
    [kind |-> "sprite",
     color |-> d.color, custom_size |-> d.custom_size,
     flip_x |-> d.flip_x, flip_y |-> d.flip_y, image |-> "default",
     transform |-> t]

\* sync_sprite without the entity_map lookup: every Sync spawns.
sync_sprite_respawn(s, id, d, t) == Spawn(s, id, SpriteComponents(d, t))

\* SpriteSync::sync_sprite
sync_sprite(s, id, d, t) ==
    IF id \in DOMAIN s.entity_map
    THEN LET e == s.entity_map[id]
         IN  IF e \in DOMAIN s.world
             THEN [s EXCEPT !.world[e] =
                      [@ EXCEPT !.color = d.color, !.custom_size = d.custom_size,
                                !.flip_x = d.flip_x, !.flip_y = d.flip_y,
                                !.transform = t]]
             ELSE s
    ELSE Spawn(s, id, SpriteComponents(d, t))

\* Transform built by sync_text: rotation is always Quat::IDENTITY.
TextTransform(t) ==
    [translation |-> t.translation, rotation |-> "identity", scale |-> t.scale]

TextComponents(d, t) ==
    [kind |-> "text",
     content |-> d.content, font_size |-> d.font_size, color |-> d.color,
     transform |-> TextTransform(t)]

\* TextSync::sync_text
sync_text(s, id, d, t) ==
    IF id \in DOMAIN s.entity_map
    THEN LET e == s.entity_map[id]
         IN  IF e \in DOMAIN s.world
             THEN [s EXCEPT !.world[e] =
                      [@ EXCEPT !.content = d.content, !.color = d.color,
                                !.font_size = d.font_size,
                                !.transform = TextTransform(t)]]
             ELSE s
    ELSE Spawn(s, id, TextComponents(d, t))

\* Components of a freshly spawned shape.  A Line has a Stroke and no Fill;
\* the other shapes get Fill(color) when mesh_data.fill, else a transparent
\* Fill.
MeshComponents(d, t) ==
    [kind |-> "mesh",
     path |-> d.shape_type,
     fill |-> IF d.shape_type = "Line" THEN "absent"
              ELSE IF d.fill THEN d.color ELSE "transparent",
     stroke_color |-> d.color,
     stroke_width |-> d.thickness,
     transform |-> t]

\* MeshOperation::Sync arm of MeshSync::apply_pending
sync_mesh(s, id, d, t) ==
    IF id \in DOMAIN s.entity_map
    THEN LET e == s.entity_map[id]
         IN  IF e \in DOMAIN s.world
             THEN [s EXCEPT !.world[e] =
                      [@ EXCEPT !.transform = t,
                                !.fill = IF @ = "absent" THEN "absent" ELSE d.color,
                                !.stroke_color = d.color]]
             ELSE s
    ELSE Spawn(s, id, MeshComponents(d, t))

\* Components a fresh entity of kind k gets from (d, t).
FreshComponents(k, d, t) ==
    CASE k = "sprite" -> SpriteComponents(d, t)
      [] k = "text"   -> TextComponents(d, t)
      [] k = "mesh"   -> MeshComponents(d, t)

\* remove that erases the mapping and forgets world.despawn.
remove_entity_leak(s, id) ==
    [s EXCEPT !.entity_map = MapDel(s.entity_map, id)]

\* SpriteSync::remove_sprite / TextSync::remove_text / MeshOperation::Remove
remove_entity(s, id) ==
    IF id \in DOMAIN s.entity_map
    THEN Despawn([s EXCEPT !.entity_map = MapDel(s.entity_map, id)],
                 s.entity_map[id])
    ELSE s

\* clear that empties the whole World instead of this sync's entities.
clear_world(s) ==
    [s EXCEPT !.entity_map = EmptyMap,
              !.world = EmptyMap,
              !.despawned = s.despawned \cup DOMAIN s.world]

\* clear that iterates the map without draining it.
clear_keep_map(s) ==
    [s EXCEPT !.world = [e \in DOMAIN s.world \ MapRange(s.entity_map) |-> s.world[e]],
              !.despawned = s.despawned \cup MapRange(s.entity_map)]

\* SpriteSync::clear / TextSync::clear / MeshOperation::Clear: drain the map,
\* despawning every handle.
clear(s) ==
    [s EXCEPT !.entity_map = EmptyMap,
              !.world = [e \in DOMAIN s.world \ MapRange(s.entity_map) |-> s.world[e]],
              !.despawned = s.despawned \cup MapRange(s.entity_map)]

\* The match on one operation inside apply_pending.
ApplyOp(k, s, op) ==
    CASE op.type = "Sync" ->
            ( CASE k = "sprite" -> sync_sprite(s, op.ruby_entity_id, op.data, op.transform_data)
                [] k = "text"   -> sync_text(s, op.ruby_entity_id, op.data, op.transform_data)
                [] k = "mesh"   -> sync_mesh(s, op.ruby_entity_id, op.data, op.transform_data) )
      [] op.type = "Remove" -> remove_entity(s, op.ruby_entity_id)
      [] op.type = "Clear"  -> clear(s)

\* `for op in ops { match op ... }`: the operations front to back.
RECURSIVE ApplyOps(_, _, _)
ApplyOps(k, s, ops) ==
    IF ops = << >> THEN s
    ELSE ApplyOps(k, ApplyOp(k, s, Head(ops)), Tail(ops))

\* The store as kind k's sync sees it at the start of an apply.
StoreOf(k) ==
    [entity_map |-> entity_map[k], world |-> world, nextEntity |-> nextEntity,
     spawned |-> {}, despawned |-> {}]

\* What synced ids look like in a store: id |-> components of its entity.
ViewOf(s) ==
    [id \in DOMAIN s.entity_map |->
        IF s.entity_map[id] \in DOMAIN s.world
        THEN s.world[s.entity_map[id]]
        ELSE [kind |-> "missing"]]

\* A store that shows the view v (handles named after the ids).
StoreFromView(v) ==
    [entity_map |-> [id \in DOMAIN v |-> id],
     world |-> [id \in DOMAIN v |-> v[id]],
     nextEntity |-> MaxId + 1, spawned |-> {}, despawned |-> {}]

\* Queue one operation and run apply_pending on it alone.
RefStep(k, v, op) == ViewOf(ApplyOps(k, StoreFromView(v), << op >>))

\* Queue and apply o1, then o2, ... one apply_pending call per operation.
RECURSIVE OneAtATime(_, _, _)
OneAtATime(k, s, ops) ==
    IF ops = << >> THEN s
    ELSE OneAtATime(k, ApplyOps(k, s, << Head(ops) >>), Tail(ops))

\* ------------------------------------------------------------------ devices
\* What the engine exposes to ruby_bridge_system each frame.  Bevy's input
\* systems run before Update: a button that went down since the previous
\* frame is just_pressed, one that went up is just_released.
ButtonInput_new == [pressed |-> {}, just_pressed |-> {}, just_released |-> {}]

PollButtons(b, now) ==
    [pressed |-> now, just_pressed |-> now \ b.pressed,
     just_released |-> b.pressed \ now]

\* Key codes the keyboard reports: two that share a name and one without a
\* name.
KeyCodes == {"ShiftLeft", "ShiftRight", "Delete"}

MouseButtonCodes == {"Left"}

WindowWidth == 800
WindowHeight == 600

\* Window::cursor_position(): None while the cursor is outside the window.
NoCursor == [inside |-> FALSE, x |-> 0, y |-> 0]

CursorPositions ==
    { NoCursor,
      [inside |-> TRUE, x |-> 500, y |-> 100],
      [inside |-> TRUE, x |-> 300, y |-> 400] }

GamepadAxes == {"LeftStickX", "LeftStickY"}

\* The Gamepad entities found by gamepad_query: none, an idle unnamed pad,
\* a named pad with South just pressed and the left stick pushed (tenths).
GamepadStates ==
    { EmptyMap,
      [id \in {1} |-> [name |-> "None", pressed |-> {}, just_pressed |-> {},
                       just_released |-> {}, axes |-> EmptyMap]],
      [id \in {1} |-> [name |-> "Pad", pressed |-> {"South"},
                       just_pressed |-> {"South"}, just_released |-> {},
                       axes |-> [a \in {"LeftStickX"} |-> 5]]] }

PointerEvent(k, t) == [kind |-> k, target |-> t, button |-> "Primary"]

\* Pointer events of one frame, in the order they were sent.
PointerBatches ==
    { << >>,
      << PointerEvent("over", 1) >>,
      << PointerEvent("over", 1), PointerEvent("out", 1) >>,
      << PointerEvent("down", 1), PointerEvent("up", 1) >>,
      << PointerEvent("down", 1), PointerEvent("up", 1), PointerEvent("click", 1),
         PointerEvent("down", 2) >> }

\* ------------------------------------------------------------ input snapshot
\* InputState::new
InputState_new ==
    [keys_pressed |-> {}, keys_just_pressed |-> {}, keys_just_released |-> {},
     mouse_buttons_pressed |-> {}, mouse_buttons_just_pressed |-> {},
     mouse_position |-> << 0, 0 >>, mouse_delta |-> << 0, 0 >>,
     gamepads |-> EmptyMap]

\* InputState::clear: the sets and the gamepad map; mouse_position and
\* mouse_delta are left as they are.
InputState_clear(st) ==
    [st EXCEPT !.keys_pressed = {}, !.keys_just_pressed = {},
               !.keys_just_released = {}, !.mouse_buttons_pressed = {},
               !.mouse_buttons_just_pressed = {}, !.gamepads = EmptyMap]

\* InputState::clear that also forgets the mouse position.
InputState_clear_all(st) == InputState_new

keycode_to_string(key) ==
    CASE key = "KeyA" -> "A"
      [] key \in {"ShiftLeft", "ShiftRight"} -> "SHIFT"
      [] key \in {"ControlLeft", "ControlRight"} -> "CONTROL"
      [] OTHER -> "None"

\* `if let Some(key_name) = keycode_to_string(*key)` over a set of key codes
KeyNames(keys) == { keycode_to_string(k) : k \in keys } \ {"None"}

\* the three `if mouse_buttons.pressed(MouseButton::..)` tests
MouseNames(buttons) ==
    (IF "Left" \in buttons THEN {"LEFT"} ELSE {})
    \cup (IF "Right" \in buttons THEN {"RIGHT"} ELSE {})
    \cup (IF "Middle" \in buttons THEN {"MIDDLE"} ELSE {})

gamepad_button_to_string(button) ==
    CASE button = "South" -> "South"
      [] button = "East" -> "East"
      [] OTHER -> "Other"

GamepadDefaultName(id) == IF id = 1 THEN "Gamepad 1" ELSE "Gamepad 2"

\* The loop over gamepad_query: one GamepadInputState per connected pad, with
\* every axis of GamepadAxis::all() present (0 when the pad reports none).
GamepadSnapshot(pads) ==
    [id \in DOMAIN pads |->
        [id |-> id,
         name |-> IF pads[id].name = "None" THEN GamepadDefaultName(id)
                  ELSE pads[id].name,
         buttons_pressed |->
             { gamepad_button_to_string(b) : b \in pads[id].pressed },
         buttons_just_pressed |->
             { gamepad_button_to_string(b) : b \in pads[id].just_pressed },
         buttons_just_released |->
             { gamepad_button_to_string(b) : b \in pads[id].just_released },
         axes |-> [a \in GamepadAxes |->
                      IF a \in DOMAIN pads[id].axes THEN pads[id].axes[a] ELSE 0]]]

\* `(pos.x - center_x, center_y - pos.y)`
CenteredPosition(pos) ==
    << pos.x - (WindowWidth \div 2), (WindowHeight \div 2) - pos.y >>

\* Lines 190-272 of ruby_bridge_system on a cleared InputState.
FillInput(st, keys, buttons, cursor, pads) ==
    [st EXCEPT !.keys_pressed = KeyNames(keys.pressed),
               !.keys_just_pressed = KeyNames(keys.just_pressed),
               !.keys_just_released = KeyNames(keys.just_released),
               !.mouse_buttons_pressed = MouseNames(buttons.pressed),
               !.mouse_buttons_just_pressed = MouseNames(buttons.just_pressed),
               !.gamepads = GamepadSnapshot(pads),
               !.mouse_position = IF cursor.inside THEN CenteredPosition(cursor)
                                  ELSE @]

pointer_button_to_string(button) ==
    CASE button = "Primary" -> "Primary"
      [] button = "Secondary" -> "Secondary"
      [] OTHER -> "Middle"

\* One PickingEventData; over and out carry no button.
PickingEventData(e) ==
    [kind |-> e.kind, target_id |-> e.target,
     button |-> IF e.kind \in {"over", "out"} THEN "None"
                ELSE pointer_button_to_string(e.button)]

\* EventReader<Pointer<K>>::read: this frame's events of kind k, in order.
ReadEvents(events, k) ==
    LET sel == SelectSeq(events, LAMBDA e : e.kind = k)
    IN  [i \in 1..Len(sel) |-> PickingEventData(sel[i])]

\* The buffer filled with the events as they were sent, kinds interleaved.
FillPicking_arrival(events) ==
    [i \in 1..Len(events) |-> PickingEventData(events[i])]

\* Lines 274-374: clear, then one loop per event kind, in this order.
FillPicking(events) ==
    ReadEvents(events, "over") \o ReadEvents(events, "out")
    \o ReadEvents(events, "down") \o ReadEvents(events, "up")
    \o ReadEvents(events, "click")

\* ------------------------------------------------------------ initial state
\* RenderApp::new and RubyBridgeState::default, thread-locals at their
\* initial values, the Startup schedule (spawn_camera_2d_system) done.
DefaultCamera == [position |-> "origin", scale |-> 1, dirty |-> FALSE]

Init ==
    /\ bpc = "start"
    /\ ran = {}
    /\ lock = "free"
    /\ PENDING = [c \in Ctx |-> [k \in Kinds |-> << >>]]
    /\ pending_operations = [k \in Kinds |-> << >>]
    /\ entity_map = [k \in Kinds |-> EmptyMap]
    /\ world = EmptyMap
    /\ nextEntity = 1
    /\ SHOULD_STOP = [c \in Ctx |-> FALSE]
    /\ CAMERA = [c \in Ctx |-> DefaultCamera]
    /\ PENDING_GAMEPAD_RUMBLE = [c \in Ctx |-> << >>]
    /\ should_exit = FALSE
    /\ camera = DefaultCamera
    /\ pending_gamepad_rumble = << >>
    /\ camera_transform = [translation |-> "origin", scale |-> 1]
    /\ rumble_requests = << >>
    /\ app_exit = FALSE
    /\ keyboard = ButtonInput_new
    /\ mouse_buttons = ButtonInput_new
    /\ cursor_position = NoCursor
    /\ gamepad_query = EmptyMap
    /\ pointer_events = << >>
    /\ input_state = InputState_new
    /\ picking_events = << >>
    /\ SHARED_INPUT = [c \in Ctx |-> InputState_new]
    /\ SHARED_PICKING_EVENTS = [c \in Ctx |-> << >>]
    /\ drained = [c \in Ctx |-> FALSE]
    /\ prev_input = InputState_new
    /\ RENDER_STATE = [c \in Ctx |-> IF c = "main" THEN "Some" ELSE "None"]
    /\ running = TRUE
    /\ poisoned = [state |-> FALSE, callback |-> FALSE]
    /\ apps = 1
    /\ calls = 0
    /\ nextSerial = [k \in Kinds |-> 1]
    /\ applied = [k \in Kinds |-> << >>]
    /\ old = [k \in Kinds |-> {}]
    /\ ref = [k \in Kinds |-> EmptyMap]
    /\ last = [op |-> "none"]

\* --------------------------------------------------- script-side operations
\* Ruby code runs on the main thread inside the frame callback only; other
\* Ruby threads get to run while the main thread executes Ruby code.
ScriptRuns == bpc = "script"

\* push onto the calling thread's PENDING_* buffer; `l` is what the history
\* variable `last` records about the call
StageAs(c, k, op, l) ==
    /\ ScriptRuns
    /\ StagedCount < MaxOps
    /\ LET sn == nextSerial[k]
           tagged ==
               CASE op.type = "Sync" ->
                        [sn |-> sn, type |-> "Sync",
                         ruby_entity_id |-> op.ruby_entity_id,
                         data |-> op.data,
                         transform_data |-> op.transform_data]
                 [] op.type = "Remove" ->
                        [sn |-> sn, type |-> "Remove",
                         ruby_entity_id |-> op.ruby_entity_id]
                 [] OTHER -> [sn |-> sn, type |-> "Clear"]
       IN PENDING' = [PENDING EXCEPT ![c][k] = Append(@, tagged)]
    /\ nextSerial' = [nextSerial EXCEPT ![k] = @ + 1]
    /\ last' = l
    /\ ref' = [ref EXCEPT ![k] = RefStep(k, @, op)]
    /\ UNCHANGED << lifeVars, bpc, ran, lock, syncVars, localVars, bridgeVars, outVars,
                    inVars, old >>

Stage(c, k, op) == StageAs(c, k, op, [op |-> "stage", ctx |-> c, kind |-> k])

\* RubyRenderApp::sync_sprite / sync_text / sync_mesh
sync_standalone(c, k, id, p) ==
    Stage(c, k, [type |-> "Sync", ruby_entity_id |-> id,
                 data |-> p.data, transform_data |-> p.transform_data])

\* A value of a Ruby hash as get_hash_value sees it: absent or nil, an
\* Integer, or an object that does not convert to the requested type.
RubyNil == [tag |-> "nil", v |-> 0]

RubyInt(i) == [tag |-> "int", v |-> i]

RubyStr == [tag |-> "str", v |-> 0]

\* mesh hashes a script passes to sync_mesh
MeshHashes ==
    { [shape_type |-> st, thickness |-> th] :
        st \in {RubyNil, RubyStr} \cup { RubyInt(i) : i \in {0, 3, 4, 7, -1} },
        th \in {RubyNil, RubyInt(4)} }

\* parse_mesh_data with an unknown shape code refused.
parse_mesh_data_strict(hash) ==
    IF \/ hash.shape_type.tag = "str"
       \/ hash.shape_type.tag = "int" /\ hash.shape_type.v \notin 0..4
    THEN [ok |-> FALSE]
    ELSE LET code == IF hash.shape_type.tag = "nil" THEN 0 ELSE hash.shape_type.v
         IN  [ok |-> TRUE,
              data |-> [shape_type |-> CASE code = 0 -> "Rectangle"
                                         [] code = 1 -> "Circle"
                                         [] code = 2 -> "RegularPolygon"
                                         [] code = 3 -> "Line"
                                         [] code = 4 -> "Ellipse",
                        color |-> "white",
                        thickness |-> IF hash.thickness.tag = "nil" THEN 2
                                      ELSE hash.thickness.v,
                        fill |-> TRUE]]

\* parse_mesh_data: `?` returns the conversion error of get_hash_value; the
\* shape code is matched with a catch-all arm; absent fields get defaults.
parse_mesh_data(hash) ==
    IF hash.shape_type.tag = "str" \/ hash.thickness.tag = "str"
    THEN [ok |-> FALSE]
    ELSE LET code == IF hash.shape_type.tag = "nil" THEN 0 ELSE hash.shape_type.v
         IN  [ok |-> TRUE,
              data |-> [shape_type |-> CASE code = 0 -> "Rectangle"
                                         [] code = 1 -> "Circle"
                                         [] code = 2 -> "RegularPolygon"
                                         [] code = 3 -> "Line"
                                         [] code = 4 -> "Ellipse"
                                         [] OTHER -> "Rectangle",
                        color |-> "white",
                        thickness |-> IF hash.thickness.tag = "nil" THEN 2
                                      ELSE hash.thickness.v,
                        fill |-> TRUE]]

\* parse_mesh_transform_data of an empty hash
DefaultMeshTransform ==
    [translation |-> "origin", rotation |-> "r0", scale |-> "one"]

\* RubyRenderApp::sync_mesh called with a hash: parse, then stage; a parse
\* error returns before anything is pushed.
sync_mesh_hash(c, id, hash) ==
    LET r == parse_mesh_data(hash)
        l == [op |-> "sync_mesh", ctx |-> c, hash |-> hash,
              before |-> Len(PENDING[c]["mesh"])]
    IN  IF r.ok
        THEN StageAs(c, "mesh",
                     [type |-> "Sync", ruby_entity_id |-> id, data |-> r.data,
                      transform_data |-> DefaultMeshTransform],
                     l)
        ELSE /\ ScriptRuns
             /\ last' = l
             /\ UNCHANGED << lifeVars, bpc, ran, lock, PENDING, syncVars,
                             localVars, bridgeVars, outVars, inVars,
                             nextSerial, old, ref >>

\* RubyRenderApp::remove_sprite / remove_text / remove_mesh
remove_standalone(c, k, id) ==
    Stage(c, k, [type |-> "Remove", ruby_entity_id |-> id])

\* clear that empties the sync of the bridge state at the call.
clear_direct(c, k) ==
    /\ ScriptRuns
    /\ LET post == clear(StoreOf(k))
       IN  /\ entity_map' = [entity_map EXCEPT ![k] = post.entity_map]
           /\ world' = post.world
    /\ last' = [op |-> "stage", ctx |-> c, kind |-> k]
    /\ UNCHANGED << lifeVars, bpc, ran, lock, PENDING, pending_operations,
                    nextEntity, applied, localVars, bridgeVars, outVars,
                    inVars, nextSerial, old, ref >>

\* RubyRenderApp::clear_sprites / clear_texts / clear_meshes
clear_standalone(c, k) ==
    Stage(c, k, [type |-> "Clear"])

\* Camera positions and scales a script asks for.
CameraPositions == {"p1", "p2"}
CameraScales == {2}

\* RubyRenderApp::set_camera_position
set_camera_position(c, p) ==
    /\ ScriptRuns
    /\ CAMERA' = [CAMERA EXCEPT ![c].position = p, ![c].dirty = TRUE]
    /\ last' = [op |-> "set_camera", ctx |-> c]
    /\ UNCHANGED << lifeVars, bpc, ran, lock, PENDING, syncVars, SHOULD_STOP,
                    PENDING_GAMEPAD_RUMBLE, bridgeVars, outVars, inVars,
                    nextSerial, old, ref >>

\* RubyRenderApp::set_camera_scale
set_camera_scale(c, sc) ==
    /\ ScriptRuns
    /\ CAMERA' = [CAMERA EXCEPT ![c].scale = sc, ![c].dirty = TRUE]
    /\ last' = [op |-> "set_camera", ctx |-> c]
    /\ UNCHANGED << lifeVars, bpc, ran, lock, PENDING, syncVars, SHOULD_STOP,
                    PENDING_GAMEPAD_RUMBLE, bridgeVars, outVars, inVars,
                    nextSerial, old, ref >>

\* Arguments of queue_gamepad_rumble, intensities and seconds in tenths:
\* a plain request, a request to stop, and one out of range.
RumbleArgs ==
    { [gamepad_id |-> 1, strong_motor |-> 5, weak_motor |-> 0, duration_secs |-> 3],
      [gamepad_id |-> 1, strong_motor |-> 0, weak_motor |-> 0, duration_secs |-> 0],
      [gamepad_id |-> 1, strong_motor |-> 15, weak_motor |-> -2, duration_secs |-> -1] }

\* RubyRenderApp::get_camera_position / get_camera_scale: a read of the
\* calling thread's CAMERA_POSITION / CAMERA_SCALE.
get_camera(c) ==
    /\ ScriptRuns
    /\ last' = [op |-> "get_camera", ctx |-> c,
                value |-> [position |-> CAMERA[c].position,
                           scale |-> CAMERA[c].scale]]
    /\ UNCHANGED << lifeVars, bpc, ran, lock, PENDING, syncVars, localVars,
                    bridgeVars, outVars, inVars, nextSerial, old, ref >>

\* RubyRenderApp::queue_gamepad_rumble
queue_gamepad_rumble(c, a) ==
    /\ ScriptRuns
    /\ Len(PENDING_GAMEPAD_RUMBLE[c]) < MaxOps
    /\ PENDING_GAMEPAD_RUMBLE' =
           [PENDING_GAMEPAD_RUMBLE EXCEPT ![c] =
               Append(@, [gamepad_id |-> a.gamepad_id,
                          strong_motor |-> a.strong_motor,
                          weak_motor |-> a.weak_motor,
                          duration_secs |-> a.duration_secs,
                          stop |-> (a.strong_motor <= 0 /\ a.weak_motor <= 0)])]
    /\ last' = [op |-> "queue_rumble", ctx |-> c]
    /\ UNCHANGED << lifeVars, bpc, ran, lock, PENDING, syncVars, SHOULD_STOP, CAMERA,
                    bridgeVars, outVars, inVars, nextSerial, old, ref >>

\* stop that writes the flag of the shared bridge state.
stop_direct(c) ==
    /\ ScriptRuns
    /\ should_exit' = TRUE
    /\ last' = [op |-> "stop", ctx |-> c]
    /\ UNCHANGED << lifeVars, bpc, ran, lock, PENDING, syncVars, localVars, camera,
                    pending_gamepad_rumble, outVars, inVars, nextSerial, old,
                    ref >>

\* RubyRenderApp::stop: sets the calling thread's SHOULD_STOP.
stop(c) ==
    /\ bpc = "script" \/ ~running
    /\ SHOULD_STOP' = [SHOULD_STOP EXCEPT ![c] = TRUE]
    /\ last' = [op |-> "stop", ctx |-> c]
    /\ UNCHANGED << lifeVars, bpc, ran, lock, PENDING, syncVars, CAMERA,
                    PENDING_GAMEPAD_RUMBLE, bridgeVars, outVars, inVars,
                    nextSerial, old, ref >>

\* A read of the input that goes through the state mutex.
read_input_locked(c) ==
    /\ ScriptRuns
    /\ lock = "free"
    /\ last' = [op |-> "read_input", ctx |-> c, value |-> input_state]
    /\ UNCHANGED << lifeVars, bpc, ran, lock, PENDING, syncVars, localVars,
                    bridgeVars, outVars, inVars, nextSerial, old, ref >>

\* RubyRenderApp::key_pressed, key_just_pressed, mouse_position, mouse_delta,
\* gamepads_state, ...: a read of the calling thread's SHARED_INPUT.
read_input(c) ==
    /\ ScriptRuns
    /\ last' = [op |-> "read_input", ctx |-> c, value |-> SHARED_INPUT[c]]
    /\ UNCHANGED << lifeVars, bpc, ran, lock, PENDING, syncVars, localVars, bridgeVars,
                    outVars, inVars, nextSerial, old, ref >>

\* drain_picking_events that returns the events and leaves them in place.
drain_picking_events_keep(c) ==
    /\ ScriptRuns
    /\ last' = [op |-> "drain_picking_events", ctx |-> c,
                value |-> SHARED_PICKING_EVENTS[c], again |-> drained[c]]
    /\ drained' = [drained EXCEPT ![c] = TRUE]
    /\ UNCHANGED << lifeVars, bpc, ran, lock, PENDING, syncVars, localVars, bridgeVars,
                    outVars, deviceVars, snapVars, SHARED_INPUT,
                    SHARED_PICKING_EVENTS, nextSerial, old, ref >>

\* RubyRenderApp::drain_picking_events: `picking_events.drain(..).collect()`
\* on the calling thread's SHARED_PICKING_EVENTS.
drain_picking_events(c) ==
    /\ ScriptRuns
    /\ last' = [op |-> "drain_picking_events", ctx |-> c,
                value |-> SHARED_PICKING_EVENTS[c], again |-> drained[c]]
    /\ SHARED_PICKING_EVENTS' = [SHARED_PICKING_EVENTS EXCEPT ![c] = << >>]
    /\ drained' = [drained EXCEPT ![c] = TRUE]
    /\ UNCHANGED << lifeVars, bpc, ran, lock, PENDING, syncVars, localVars, bridgeVars,
                    outVars, deviceVars, snapVars, SHARED_INPUT,
                    nextSerial, old, ref >>

\* ------------------------------------------------------- ruby_bridge_system
\* `bridge.state.lock().unwrap()`
Acquire(who) == lock = "free" /\ lock' = who

\* the guard is dropped
Release == lock' = "free"

\* lines 186-188: take the lock and clear the input state
BridgeBegin ==
    /\ bpc = "start"
    /\ "bridge" \notin ran
    /\ Acquire("engine")
    /\ ~poisoned.state
    /\ input_state' = InputState_clear(input_state)
    /\ prev_input' = input_state
    /\ bpc' = "snapshot"
    /\ last' = [op |-> "other"]
    /\ UNCHANGED << lifeVars, ran, PENDING, syncVars, localVars, bridgeVars, outVars,
                    deviceVars, picking_events, sharedVars, nextSerial, old, ref >>

\* lines 190-376: refill the input state, clear and refill the picking
\* events, then drop(state)
BridgeSnapshot ==
    /\ bpc = "snapshot"
    /\ input_state' = FillInput(input_state, keyboard, mouse_buttons,
                                cursor_position, gamepad_query)
    /\ picking_events' = FillPicking(pointer_events)
    /\ Release
    /\ bpc' = "callback_wait"
    /\ last' = [op |-> "snapshot"]
    /\ UNCHANGED << lifeVars, ran, PENDING, syncVars, localVars, bridgeVars, outVars,
                    deviceVars, prev_input, sharedVars, nextSerial, old, ref >>

\* The closure's first lines (102-107): the main thread's SHARED_INPUT and
\* SHARED_PICKING_EVENTS become clones of the bridge's.
CopyShared ==
    /\ SHARED_INPUT' = [SHARED_INPUT EXCEPT !["main"] = input_state]
    /\ SHARED_PICKING_EVENTS' =
           [SHARED_PICKING_EVENTS EXCEPT !["main"] = picking_events]
    /\ drained' = [drained EXCEPT !["main"] = FALSE]

\* Entering the closure without taking the state lock.
CallbackEnter_unlocked ==
    /\ bpc = "callback_wait"
    /\ lock = "free"
    /\ CopyShared
    /\ bpc' = "script"
    /\ calls' = calls + 1
    /\ last' = [op |-> "other"]
    /\ UNCHANGED << appVars, lock, ran, PENDING, syncVars, localVars, bridgeVars, outVars,
                    deviceVars, snapVars, nextSerial, old, ref >>

\* lines 378-381 and 102-107: lock the callback, lock the state, enter the
\* closure, which copies the snapshot before it calls the Ruby proc
CallbackEnter ==
    /\ bpc = "callback_wait"
    /\ Acquire("engine")
    /\ ~poisoned.callback
    /\ ~poisoned.state
    /\ CopyShared
    /\ bpc' = "script"
    /\ calls' = calls + 1
    /\ last' = [op |-> "other"]
    /\ UNCHANGED << appVars, ran, PENDING, syncVars, localVars, bridgeVars, outVars,
                    deviceVars, snapVars, nextSerial, old, ref >>

\* `for op in pending.pending_operations.drain(..) { bridge.push(op) }`
MergeInto(queue, staged) == queue \o staged

\* What the drain leaves in the thread-local buffer.
Drained(staged) == << >>

\* The closure of run_with_block after the Ruby proc returned (lines
\* 115-157), run on the main thread, and the release of the state lock.
CallbackMerge ==
    /\ bpc = "script"
    /\ pending_operations' =
           [k \in Kinds |-> MergeInto(pending_operations[k], PENDING["main"][k])]
    /\ PENDING' = [PENDING EXCEPT !["main"] = [k \in Kinds |-> Drained(@[k])]]
    /\ pending_gamepad_rumble' =
           pending_gamepad_rumble \o PENDING_GAMEPAD_RUMBLE["main"]
    /\ PENDING_GAMEPAD_RUMBLE' = [PENDING_GAMEPAD_RUMBLE EXCEPT !["main"] = << >>]
    /\ CAMERA' = [CAMERA EXCEPT !["main"].dirty = FALSE]
    /\ camera' = IF CAMERA["main"].dirty
                 THEN [CAMERA["main"] EXCEPT !.dirty = TRUE]
                 ELSE camera
    /\ should_exit' = IF SHOULD_STOP["main"] THEN TRUE ELSE should_exit
    /\ Release
    /\ bpc' = "tail"
    /\ last' = [op |-> "merge"]
    /\ UNCHANGED << lifeVars, ran, entity_map, world, nextEntity, applied, SHOULD_STOP,
                    outVars, inVars, nextSerial, old, ref >>

\* One GamepadRumbleRequest per command (lines 386-401).
RumbleRequest(cmd) ==
    IF cmd.stop \/ (cmd.strong_motor <= 0 /\ cmd.weak_motor <= 0)
    THEN [type |-> "Stop", gamepad |-> cmd.gamepad_id]
    ELSE [type |-> "Add", gamepad |-> cmd.gamepad_id,
          strong_motor |-> IF cmd.strong_motor < 0 THEN 0
                           ELSE IF cmd.strong_motor > 10 THEN 10 ELSE cmd.strong_motor,
          weak_motor |-> IF cmd.weak_motor < 0 THEN 0
                         ELSE IF cmd.weak_motor > 10 THEN 10 ELSE cmd.weak_motor,
          duration |-> IF cmd.duration_secs < 0 THEN 0 ELSE cmd.duration_secs]

\* The tail with an exit check that consumes the flag.
BridgeTail_reset ==
    /\ bpc = "tail"
    /\ lock = "free"
    /\ ~poisoned.state
    /\ rumble_requests' = rumble_requests \o
           [i \in 1..Len(pending_gamepad_rumble) |->
               RumbleRequest(pending_gamepad_rumble[i])]
    /\ pending_gamepad_rumble' = << >>
    /\ app_exit' = (app_exit \/ should_exit)
    /\ should_exit' = FALSE
    /\ bpc' = "done"
    /\ ran' = ran \cup {"bridge"}
    /\ last' = [op |-> "other"]
    /\ UNCHANGED << lifeVars, lock, PENDING, syncVars, localVars, camera,
                    camera_transform, inVars, nextSerial, old, ref >>

\* The tail iterating over the rumble queue without draining it.
BridgeTail_keep ==
    /\ bpc = "tail"
    /\ lock = "free"
    /\ ~poisoned.state
    /\ rumble_requests' = rumble_requests \o
           [i \in 1..Len(pending_gamepad_rumble) |->
               RumbleRequest(pending_gamepad_rumble[i])]
    /\ app_exit' = (app_exit \/ should_exit)
    /\ bpc' = "done"
    /\ ran' = ran \cup {"bridge"}
    /\ last' = [op |-> "other"]
    /\ UNCHANGED << lifeVars, lock, PENDING, syncVars, localVars, bridgeVars,
                    camera_transform, inVars, nextSerial, old, ref >>

\* lines 385-405: rumble drain and exit check under the lock
BridgeTail ==
    /\ bpc = "tail"
    /\ lock = "free"
    /\ ~poisoned.state
    /\ rumble_requests' = rumble_requests \o
           [i \in 1..Len(pending_gamepad_rumble) |->
               RumbleRequest(pending_gamepad_rumble[i])]
    /\ pending_gamepad_rumble' = << >>
    /\ app_exit' = (app_exit \/ should_exit)
    /\ bpc' = "done"
    /\ ran' = ran \cup {"bridge"}
    /\ last' = [op |-> "other"]
    /\ UNCHANGED << lifeVars, lock, PENDING, syncVars, localVars, should_exit, camera,
                    camera_transform, inVars, nextSerial, old, ref >>

\* ------------------------------------------------------------ sync systems
\* Taking the operations off the back of the queue.
TakeOps_reversed(queue) ==
    [i \in 1..Len(queue) |-> queue[Len(queue) + 1 - i]]

\* `let ops = self.pending_operations.drain(..).collect()`
TakeOps(queue) == queue

\* sprite_sync_system / text_sync_system / mesh_sync_system: lock the state
\* and run apply_pending.  These systems take &mut World, so no other system
\* runs beside them.
apply_pending(k) ==
    /\ k \notin ran
    /\ bpc \in {"start", "done"}
    /\ lock = "free"
    /\ ~poisoned.state
    /\ LET ops == TakeOps(pending_operations[k])
           pre == StoreOf(k)
           post == ApplyOps(k, pre, ops)
       IN  /\ entity_map' = [entity_map EXCEPT ![k] = post.entity_map]
           /\ world' = post.world
           /\ nextEntity' = post.nextEntity
           /\ applied' = [applied EXCEPT ![k] = @ \o [i \in 1..Len(ops) |-> ops[i].sn]]
           /\ last' = [op |-> "apply", kind |-> k, ops |-> ops, pre |-> pre,
                       spawned |-> post.spawned, despawned |-> post.despawned]
    /\ pending_operations' = [pending_operations EXCEPT ![k] = << >>]
    /\ ran' = ran \cup {k}
    /\ UNCHANGED << lifeVars, bpc, lock, PENDING, localVars, bridgeVars, outVars,
                    inVars, nextSerial, old, ref >>

\* camera_sync_system
camera_sync_system ==
    /\ "camera" \notin ran
    /\ bpc \in {"start", "callback_wait", "tail", "done"}
    /\ lock = "free"
    /\ ~poisoned.state
    /\ IF camera.dirty
       THEN /\ camera_transform' = [translation |-> camera.position,
                                    scale |-> camera.scale]
            /\ camera' = [camera EXCEPT !.dirty = FALSE]
       ELSE UNCHANGED << camera, camera_transform >>
    /\ ran' = ran \cup {"camera"}
    /\ last' = [op |-> "camera", dirty |-> camera.dirty]
    /\ UNCHANGED << lifeVars, bpc, lock, PENDING, syncVars, localVars, should_exit,
                    pending_gamepad_rumble, rumble_requests, app_exit,
                    inVars, nextSerial, old, ref >>

\* ------------------------------------------------------------ the frame loop
FrameEnd == ran = Systems

\* The engine's input systems, run before each Update: the button resources
\* follow the devices, the cursor and the gamepads are re-read, and the
\* pointer events of the new frame are sent.
PreUpdate(keys, buttons, cursor, pads, events) ==
    /\ keyboard' = PollButtons(keyboard, keys)
    /\ mouse_buttons' = PollButtons(mouse_buttons, buttons)
    /\ cursor_position' = cursor
    /\ gamepad_query' = pads
    /\ pointer_events' = events

\* A frame in which no device changes and no pointer event arrives.
PreUpdateIdle ==
    PreUpdate(keyboard.pressed, mouse_buttons.pressed, cursor_position,
              gamepad_query, << >>)

\* App::run: the next Update starts unless AppExit was sent.  With `track`
\* the history variable `old` records what had been staged by then.
NewFrameStep(track) ==
    /\ FrameEnd
    /\ ~app_exit
    /\ ran' = {}
    /\ bpc' = "start"
    /\ calls' = 0
    /\ rumble_requests' = << >>
    /\ old' = IF track THEN [k \in Kinds |-> 1..(nextSerial[k] - 1)] ELSE old
    /\ last' = [op |-> "other"]
    /\ UNCHANGED << appVars, lock, PENDING, syncVars, localVars, bridgeVars,
                    camera_transform, app_exit, snapVars, sharedVars,
                    nextSerial, ref >>

NewFrame == NewFrameStep(FALSE) /\ PreUpdateIdle

NewFrameTracked == NewFrameStep(TRUE) /\ PreUpdateIdle

\* A new frame in which the keyboard reports the key codes `keys` held and the
\* pointer events `events` arrive.
NewFrameInput(keysets, batches) ==
    /\ NewFrameStep(FALSE)
    /\ \E keys \in keysets, events \in batches :
          PreUpdate(keys, mouse_buttons.pressed, cursor_position,
                    gamepad_query, events)

NewFrameKeys == NewFrameInput(SUBSET KeyCodes, {<< >>})

NewFramePointer == NewFrameInput({{}}, PointerBatches)

NewFrameReads ==
    NewFrameInput(SUBSET {"ShiftLeft"}, {<< >>, << PointerEvent("over", 1) >>})

\* A new frame in which the mouse buttons, the cursor and the gamepads change.
NewFrameMouse ==
    /\ NewFrameStep(FALSE)
    /\ \E buttons \in SUBSET MouseButtonCodes, cursor \in CursorPositions,
          pads \in GamepadStates :
          PreUpdate(keyboard.pressed, buttons, cursor, pads, << >>)

\* ------------------------------------------------ other users of the World
\* The *_sync systems work on the App's World, which every other system and
\* plugin of the App can change between two systems: one of them despawns
\* an entity.
external_despawn(e) ==
    /\ e \in DOMAIN world
    /\ bpc \in {"start", "done"}
    /\ lock = "free"
    /\ world' = MapDel(world, e)
    /\ last' = [op |-> "external_despawn", entity |-> e]
    /\ UNCHANGED << lifeVars, bpc, ran, lock, PENDING, pending_operations,
                    entity_map, nextEntity, applied, localVars, bridgeVars,
                    outVars, inVars, nextSerial, old, ref >>

\* ------------------------------------------------- another holder of the Arc
\* RenderApp::bridge_state hands out a clone of Arc<Mutex<RubyBridgeState>>;
\* a thread holding it locks and unlocks the state whenever the mutex is
\* free.
observer_lock ==
    /\ Acquire("observer")
    /\ ~poisoned.state
    /\ last' = [op |-> "other"]
    /\ UNCHANGED << lifeVars, bpc, ran, PENDING, syncVars, localVars, bridgeVars, outVars,
                    inVars, nextSerial, old, ref >>

observer_unlock ==
    /\ lock = "observer"
    /\ Release
    /\ last' = [op |-> "other"]
    /\ UNCHANGED << lifeVars, bpc, ran, PENDING, syncVars, localVars, bridgeVars, outVars,
                    inVars, nextSerial, old, ref >>

\* The thread holding the lock panics: its guard is dropped while unwinding,
\* which poisons the mutex.
observer_panic ==
    /\ lock = "observer"
    /\ Release
    /\ poisoned' = [poisoned EXCEPT !.state = TRUE]
    /\ last' = [op |-> "other"]
    /\ UNCHANGED << RENDER_STATE, running, apps, calls, bpc, ran, PENDING,
                    syncVars, localVars, bridgeVars, outVars, inVars,
                    nextSerial, old, ref >>

\* `bridge.state.lock().unwrap()` on a poisoned mutex, at any of the places
\* where a system takes the state lock (lines 186, 380, 385, 415, 426, 437,
\* 446): the system panics and the panic unwinds out of RenderApp::run and of
\* run_with_block, past its clean-up.  At line 380 the callback guard of
\* line 378 is alive, so the callback mutex is poisoned as well.
lock_panic ==
    /\ lock = "free"
    /\ poisoned.state
    /\ \E site \in Systems \cup {"callback", "tail"} :
          /\ \/ site = "bridge" /\ bpc = "start" /\ "bridge" \notin ran
             \/ site = "callback" /\ bpc = "callback_wait"
             \/ site = "tail" /\ bpc = "tail"
             \/ site \in Kinds /\ site \notin ran /\ bpc \in {"start", "done"}
             \/ /\ site = "camera" /\ "camera" \notin ran
                /\ bpc \in {"start", "callback_wait", "tail", "done"}
          /\ poisoned' = [poisoned EXCEPT
                             !.callback = @ \/ site = "callback"]
          /\ last' = [op |-> "lock_panic", site |-> site]
    /\ bpc' = "panic"
    /\ running' = FALSE
    /\ UNCHANGED << RENDER_STATE, apps, calls, ran, lock, PENDING, syncVars,
                    localVars, bridgeVars, outVars, inVars, nextSerial, old,
                    ref >>

\* ruby_bridge_system when `bridge.callback.lock()` is Err (line 378): the
\* `if let Ok` has no else, the callback is not called and the system goes
\* on to its tail.  The callback mutex is poisoned only by a panic under the
\* guard of line 378, which ends the loop: no frame gets here.
CallbackSkip ==
    /\ bpc = "callback_wait"
    /\ poisoned.callback
    /\ bpc' = "tail"
    /\ last' = [op |-> "callback_skipped"]
    /\ UNCHANGED << lifeVars, ran, lock, PENDING, syncVars, localVars,
                    bridgeVars, outVars, inVars, nextSerial, old, ref >>

\* ------------------------------------------------- life cycle of RenderApp
\* Ruby code runs inside the frame callback, and whenever the main thread is
\* not inside RenderApp#run.
RubyRuns == ScriptRuns \/ ~running

\* run_with_block keeps RENDER_STATE mutably borrowed on its thread from
\* line 98 until RenderApp::run has returned.
RenderStateBorrowed(c) == c = "main" /\ running

\* The closure keeps RUBY_CALLBACK borrowed on its thread while the Ruby
\* proc runs (lines 109-113).
RubyCallbackBorrowed(c) == c = "main" /\ running /\ bpc = "script"

\* RubyRenderApp::should_close: RENDER_STATE.borrow(), then
\* RenderApp::should_exit, which answers false when the state mutex is
\* poisoned; true when the thread has no RenderApp.  A RenderApp of another
\* thread is never run, so its flag is false.
should_close(c) ==
    /\ RubyRuns
    /\ (c = "main" /\ ~running /\ RENDER_STATE[c] = "Some") => lock = "free"
    /\ last' =
         IF RenderStateBorrowed(c)
         THEN [op |-> "should_close", ctx |-> c, panic |-> TRUE,
               value |-> FALSE, poisoned |-> FALSE]
         ELSE IF RENDER_STATE[c] = "None"
         THEN [op |-> "should_close", ctx |-> c, panic |-> FALSE,
               value |-> TRUE, poisoned |-> FALSE]
         ELSE [op |-> "should_close", ctx |-> c, panic |-> FALSE,
               value |-> IF c = "main" /\ ~poisoned.state THEN should_exit
                         ELSE FALSE,
               poisoned |-> (c = "main" /\ poisoned.state)]
    /\ UNCHANGED << lifeVars, bpc, ran, lock, PENDING, syncVars, localVars,
                    bridgeVars, outVars, inVars, nextSerial, old, ref >>

\* RubyRenderApp::is_initialized: RENDER_STATE.borrow().is_some()
is_initialized(c) ==
    /\ RubyRuns
    /\ last' = [op |-> "is_initialized", ctx |-> c,
                panic |-> RenderStateBorrowed(c),
                value |-> (~RenderStateBorrowed(c) /\ RENDER_STATE[c] = "Some")]
    /\ UNCHANGED << lifeVars, bpc, ran, lock, PENDING, syncVars, localVars,
                    bridgeVars, outVars, inVars, nextSerial, old, ref >>

\* RubyRenderApp::new: RENDER_STATE.borrow_mut(); an error when the thread
\* already has a RenderApp; else RenderApp::new builds a new App with a new
\* World and a new RubyBridgeState.  The thread-local buffers are not
\* touched.  A RenderApp made on another thread is never run here.
new(c) ==
    /\ RubyRuns
    /\ IF RenderStateBorrowed(c)
       THEN /\ last' = [op |-> "new", ctx |-> c, panic |-> TRUE,
                        error |-> FALSE, before |-> RENDER_STATE[c]]
            /\ UNCHANGED << lifeVars, bpc, ran, lock, syncVars, bridgeVars,
                            outVars, snapVars >>
       ELSE IF RENDER_STATE[c] = "Some"
       THEN /\ last' = [op |-> "new", ctx |-> c, panic |-> FALSE,
                        error |-> TRUE, before |-> RENDER_STATE[c]]
            /\ UNCHANGED << lifeVars, bpc, ran, lock, syncVars, bridgeVars,
                            outVars, snapVars >>
       ELSE IF c # "main"
       THEN /\ RENDER_STATE' = [RENDER_STATE EXCEPT ![c] = "Some"]
            /\ last' = [op |-> "new", ctx |-> c, panic |-> FALSE,
                        error |-> FALSE, before |-> RENDER_STATE[c]]
            /\ UNCHANGED << running, poisoned, apps, calls, bpc, ran, lock,
                            syncVars, bridgeVars, outVars, snapVars >>
       ELSE /\ apps < MaxApps
            /\ apps' = apps + 1
            /\ RENDER_STATE' = [RENDER_STATE EXCEPT ![c] = "Some"]
            /\ poisoned' = [state |-> FALSE, callback |-> FALSE]
            /\ lock' = "free"
            /\ bpc' = "created"
            /\ ran' = {}
            /\ calls' = 0
            /\ pending_operations' = [k \in Kinds |-> << >>]
            /\ entity_map' = [k \in Kinds |-> EmptyMap]
            /\ world' = EmptyMap
            /\ nextEntity' = 1
            /\ should_exit' = FALSE
            /\ camera' = DefaultCamera
            /\ pending_gamepad_rumble' = << >>
            /\ camera_transform' = [translation |-> "origin", scale |-> 1]
            /\ rumble_requests' = << >>
            /\ app_exit' = FALSE
            /\ input_state' = InputState_new
            /\ picking_events' = << >>
            /\ prev_input' = InputState_new
            /\ last' = [op |-> "new", ctx |-> c, panic |-> FALSE,
                        error |-> FALSE, before |-> RENDER_STATE[c]]
            /\ UNCHANGED << running, applied >>
    /\ UNCHANGED << PENDING, localVars, deviceVars, sharedVars, nextSerial,
                    old, ref >>

\* RubyRenderApp::run_with_block called with a block on the main thread.
\* Inside the frame callback RUBY_CALLBACK.borrow_mut() (line 94) meets the
\* closure's borrow.  Else the closure is registered and RenderApp::run
\* starts the loop of a RenderApp that has not run yet; without one the
\* call returns at once.
run ==
    /\ RubyRuns
    /\ bpc # "panic"
    /\ IF RubyCallbackBorrowed("main")
       THEN /\ last' = [op |-> "run", ctx |-> "main", panic |-> TRUE]
            /\ UNCHANGED << bpc, running >>
       ELSE IF RENDER_STATE["main"] = "Some"
       THEN /\ bpc = "created"
            /\ bpc' = "start"
            /\ running' = TRUE
            /\ last' = [op |-> "run", ctx |-> "main", panic |-> FALSE]
       ELSE /\ last' = [op |-> "run", ctx |-> "main", panic |-> FALSE]
            /\ UNCHANGED << bpc, running >>
    /\ UNCHANGED << RENDER_STATE, poisoned, apps, calls, ran, lock, PENDING,
                    syncVars, localVars, bridgeVars, outVars, inVars,
                    nextSerial, old, ref >>

\* run_with_block with the stop flag cleared when the loop has ended.
run_return_reset ==
    /\ running
    /\ FrameEnd
    /\ app_exit
    /\ running' = FALSE
    /\ RENDER_STATE' = [RENDER_STATE EXCEPT !["main"] = "None"]
    /\ SHOULD_STOP' = [SHOULD_STOP EXCEPT !["main"] = FALSE]
    /\ bpc' = "returned"
    /\ last' = [op |-> "run_return"]
    /\ UNCHANGED << poisoned, apps, calls, ran, lock, PENDING, syncVars,
                    CAMERA, PENDING_GAMEPAD_RUMBLE, bridgeVars, outVars,
                    inVars, nextSerial, old, ref >>

\* The loop ends after the Update in which AppExit was sent; RenderApp::run
\* returns and run_with_block clears RUBY_CALLBACK and RENDER_STATE (lines
\* 165-173), dropping the RenderApp.
run_return ==
    /\ running
    /\ FrameEnd
    /\ app_exit
    /\ running' = FALSE
    /\ RENDER_STATE' = [RENDER_STATE EXCEPT !["main"] = "None"]
    /\ bpc' = "returned"
    /\ last' = [op |-> "run_return"]
    /\ UNCHANGED << poisoned, apps, calls, ran, lock, PENDING, syncVars,
                    localVars, bridgeVars, outVars, inVars, nextSerial, old,
                    ref >>

\* ---------------------------------------------------------- specifications
\* The entity operations thread c may issue on kind k.
ScriptOp(c, k) ==
    \/ \E id \in Ids, p \in Payloads(k) : sync_standalone(c, k, id, p)
    \/ \E id \in Ids : remove_standalone(c, k, id)
    \/ clear_standalone(c, k)

\* One Update of the engine, system by system.
Systems5 ==
    \/ BridgeBegin
    \/ BridgeSnapshot
    \/ CallbackEnter
    \/ CallbackMerge
    \/ BridgeTail
    \/ \E k \in Kinds : apply_pending(k)
    \/ camera_sync_system

\* The engine and a script that runs on the main thread only.
Next ==
    \/ Systems5
    \/ NewFrame
    \/ \E k \in Kinds : ScriptOp("main", k)

Spec == Init /\ [][Next]_vars

\* The same with a second Ruby thread issuing sprite operations.
NextThreads ==
    \/ Systems5
    \/ NewFrameTracked
    \/ \E k \in Kinds : ScriptOp("main", k)
    \/ ScriptOp("worker", "sprite")

SpecThreads == Init /\ [][NextThreads]_vars

\* The engine, a script working on sprites, and a thread that holds a clone
\* of the state Arc.
NextLock ==
    \/ Systems5
    \/ NewFrame
    \/ ScriptOp("main", "sprite")
    \/ observer_lock
    \/ observer_unlock

SpecLock == Init /\ [][NextLock]_vars

\* The engine with a keyboard, and a script that reads the input.
NextKeys ==
    \/ Systems5
    \/ NewFrameKeys
    \/ read_input("main")

SpecKeys == Init /\ [][NextKeys]_vars

\* The engine with a mouse and gamepads, and a script that reads the input.
NextMouse ==
    \/ Systems5
    \/ NewFrameMouse
    \/ read_input("main")

SpecMouse == Init /\ [][NextMouse]_vars

\* The engine with pointer events, and a script that reads them.
NextPicking ==
    \/ Systems5
    \/ NewFramePointer
    \/ drain_picking_events("main")

SpecPicking == Init /\ [][NextPicking]_vars

\* The engine with a key and pointer events, read by scripts on the main
\* thread and on a second Ruby thread.
NextReads ==
    \/ Systems5
    \/ NewFrameReads
    \/ \E c \in Ctx : read_input(c)
    \/ \E c \in Ctx : drain_picking_events(c)

SpecReads == Init /\ [][NextReads]_vars

\* The engine and a script that moves the camera.
NextCamera ==
    \/ Systems5
    \/ NewFrame
    \/ \E p \in CameraPositions : set_camera_position("main", p)
    \/ \E sc \in CameraScales : set_camera_scale("main", sc)

SpecCamera == Init /\ [][NextCamera]_vars

\* The engine and scripts, on the main thread and on a second Ruby thread,
\* that stop the loop.
NextStop ==
    \/ Systems5
    \/ NewFrame
    \/ \E c \in Ctx : stop(c)

SpecStop == Init /\ [][NextStop]_vars

\* The engine and a script that upserts a sprite, moves the camera, asks for
\* rumble and stops the loop.
NextExit ==
    \/ Systems5
    \/ NewFrame
    \/ \E p \in SpritePayloads : sync_standalone("main", "sprite", 1, p)
    \/ set_camera_position("main", "p1")
    \/ \E a \in RumbleArgs : queue_gamepad_rumble("main", a)
    \/ stop("main")

SpecExit == Init /\ [][NextExit]_vars

\* The engine and scripts, on the main thread and on a second Ruby thread,
\* that ask for gamepad rumble.
NextRumble ==
    \/ Systems5
    \/ NewFrame
    \/ \E c \in Ctx, a \in RumbleArgs : queue_gamepad_rumble(c, a)

SpecRumble == Init /\ [][NextRumble]_vars

\* The engine and a script that passes mesh hashes to sync_mesh.
NextMesh ==
    \/ Systems5
    \/ NewFrame
    \/ \E hash \in MeshHashes : sync_mesh_hash("main", 1, hash)

SpecMesh == Init /\ [][NextMesh]_vars

\* The engine and scripts that between them use the whole command surface,
\* part of it on the main thread and part on a second Ruby thread.
NextScript ==
    \/ Systems5
    \/ NewFrame
    \/ sync_standalone("main", "sprite", 1,
                       CHOOSE p \in SpritePayloads : p.data.color = "red")
    \/ remove_standalone("worker", "sprite", 1)
    \/ clear_standalone("main", "sprite")
    \/ set_camera_position("worker", "p1")
    \/ set_camera_scale("worker", 2)
    \/ get_camera("worker")
    \/ queue_gamepad_rumble("worker", [gamepad_id |-> 1, strong_motor |-> 5,
                                       weak_motor |-> 0, duration_secs |-> 3])
    \/ stop("main")
    \/ read_input("main")
    \/ drain_picking_events("main")

SpecScript == Init /\ [][NextScript]_vars

\* The engine, a script working on sprites, and another user of the World
\* that despawns entities.
NextDesync ==
    \/ Systems5
    \/ NewFrame
    \/ ScriptOp("main", "sprite")
    \/ \E e \in DOMAIN world : external_despawn(e)

SpecDesync == Init /\ [][NextDesync]_vars

\* The engine, a script that stops the loop and asks whether it should close,
\* and a thread that holds a clone of the state Arc and may panic under the
\* lock.
NextPoison ==
    \/ Systems5
    \/ NewFrame
    \/ stop("main")
    \/ should_close("main")
    \/ observer_lock
    \/ observer_unlock
    \/ observer_panic
    \/ lock_panic
    \/ run_return

SpecPoison == Init /\ [][NextPoison]_vars

\* RenderApps made, run and dropped one after the other on the main thread,
\* with a script that stops the loop and calls the life-cycle methods from
\* inside and outside the frame callback, and a second Ruby thread.
NextLife ==
    \/ Systems5
    \/ NewFrame
    \/ \E c \in Ctx : stop(c)
    \/ \E c \in Ctx : new(c)
    \/ run
    \/ run_return
    \/ \E c \in Ctx : should_close(c)
    \/ \E c \in Ctx : is_initialized(c)

SpecLife == Init /\ [][NextLife]_vars

\* ------------------------------------------------------------------ claims
AppliedSet(k) == Range(applied[k])

JustApplied == last.op = "apply"

IsNoOp(m, op) ==
    \/ op.type = "Remove" /\ op.ruby_entity_id \notin DOMAIN m
    \/ op.type = "Clear" /\ m = EmptyMap

Touches(op, id) ==
    \/ op.type = "Clear"
    \/ op.type = "Remove" /\ op.ruby_entity_id = id

LiveOfKind(k) == { e \in DOMAIN world : world[e].kind = k }

\* C1: every staged entity operation is applied exactly once: none is applied
\* twice, and by the end of a frame every operation that was staged before
\* that frame began has been applied.
C1_ExactlyOnce ==
    /\ \A k \in Kinds : \A i, j \in 1..Len(applied[k]) :
          applied[k][i] = applied[k][j] => i = j
    /\ FrameEnd => \A k \in Kinds : old[k] \subseteq AppliedSet(k)

\* C2: whatever any thread staged before a drain is merged by that drain and
\* applied in the same frame, and nothing still in a staging buffer has been
\* applied.
C2_StagedBeforeDrainApplied ==
    /\ last.op = "merge" => \A c \in Ctx, k \in Kinds : PENDING[c][k] = << >>
    /\ FrameEnd => \A k \in Kinds : pending_operations[k] = << >>
    /\ \A c \in Ctx, k \in Kinds : Serials(PENDING[c][k]) \cap AppliedSet(k) = {}

\* C3: in every frame the engine-side effects come in the order sprite apply,
\* text apply, mesh apply, camera latch, rumble issue, exit check (the last
\* two are the tail of ruby_bridge_system).
C3_Order ==
    /\ ("text" \in ran' /\ "text" \notin ran) => "sprite" \in ran
    /\ ("mesh" \in ran' /\ "mesh" \notin ran) => "text" \in ran
    /\ ("camera" \in ran' /\ "camera" \notin ran) => "mesh" \in ran
    /\ ("bridge" \in ran' /\ "bridge" \notin ran) => "camera" \in ran

C3_FixedOrder == [][C3_Order]_vars

\* The part of a frame from the start of the input snapshot to the end of the
\* apply of pending operations.
BridgeWork == bpc # "start" /\ ~({"sprite", "text", "mesh"} \subseteq ran)

C5_OneHandlePerId ==
    \A k \in Kinds :
        /\ \A i, j \in DOMAIN entity_map[k] :
              entity_map[k][i] = entity_map[k][j] => i = j
        /\ MapRange(entity_map[k]) = LiveOfKind(k)

C5_Witness ==
    /\ JustApplied
    /\ Cardinality(DOMAIN world) >= 2
    /\ \E k \in Kinds : entity_map[k] # EmptyMap /\ LiveOfKind(k) # DOMAIN world

\* C6: an Upsert applied to an id that got its handle in an earlier frame
\* keeps that handle, leaves it the only one for the id, and spawns nothing.
C6_IdempotentUpsert ==
    JustApplied =>
        LET k == last.kind
            m == last.pre.entity_map
            ops == last.ops
        IN  /\ \A id \in DOMAIN m :
                  ( /\ \E i \in 1..Len(ops) :
                          ops[i].type = "Sync" /\ ops[i].ruby_entity_id = id
                    /\ \A i \in 1..Len(ops) : ~Touches(ops[i], id) )
                  => /\ id \in DOMAIN entity_map[k]
                     /\ entity_map[k][id] = m[id]
                     /\ m[id] \in DOMAIN world
                     /\ m[id] \notin last.spawned
                     /\ \A e \in last.spawned :
                           \A j \in DOMAIN entity_map[k] :
                               entity_map[k][j] = e => j # id
            /\ ( \A i \in 1..Len(ops) :
                    ops[i].type = "Sync" /\ ops[i].ruby_entity_id \in DOMAIN m )
               => /\ last.spawned = {}
                  /\ nextEntity = last.pre.nextEntity
                  /\ DOMAIN world = DOMAIN last.pre.world

C6_Witness ==
    /\ JustApplied
    /\ last.ops # << >>
    /\ \A i \in 1..Len(last.ops) :
          /\ last.ops[i].type = "Sync"
          /\ last.ops[i].ruby_entity_id \in DOMAIN last.pre.entity_map

\* C7: after an Upsert is applied to an id that already has a handle, the
\* entity has the components a fresh entity created from that Upsert has.
C7_UpsertEqualsFresh ==
    (JustApplied /\ last.ops # << >>) =>
        LET k == last.kind
            ops == last.ops
            op == ops[Len(ops)]
            before == ApplyOps(k, last.pre, SubSeq(ops, 1, Len(ops) - 1))
        IN  (op.type = "Sync" /\ op.ruby_entity_id \in DOMAIN before.entity_map)
            => world[entity_map[k][op.ruby_entity_id]]
                  = FreshComponents(k, op.data, op.transform_data)

\* C8: a batch of Removes of ids without a handle and of Clears of an empty
\* map leaves the id map and the World as they were and makes no despawn
\* call (so the store has nothing to report).
C8_IdempotentRemoval ==
    (JustApplied /\ \A i \in 1..Len(last.ops) :
                        IsNoOp(last.pre.entity_map, last.ops[i]))
    => /\ entity_map[last.kind] = last.pre.entity_map
       /\ world = last.pre.world
       /\ nextEntity = last.pre.nextEntity
       /\ last.despawned = {}
       /\ last.spawned = {}

C8_Witness ==
    /\ JustApplied
    /\ last.ops # << >>
    /\ \A i \in 1..Len(last.ops) : IsNoOp(last.pre.entity_map, last.ops[i])
    /\ world # EmptyMap

\* C9: operations are applied in the order issued; the result of a batch is
\* the result of queueing and applying its operations one at a time; and what
\* is synced plus what is still queued or staged always adds up to applying
\* every issued operation alone, in order.
C9_FifoApplication ==
    /\ \A k \in Kinds : \A i, j \in 1..Len(applied[k]) :
          i < j => applied[k][i] < applied[k][j]
    /\ JustApplied =>
          LET post == OneAtATime(last.kind, last.pre, last.ops)
          IN  /\ entity_map[last.kind] = post.entity_map
              /\ world = post.world
              /\ nextEntity = post.nextEntity
    /\ \A k \in Kinds :
          ViewOf(OneAtATime(k, StoreOf(k),
                            pending_operations[k] \o PENDING["main"][k])) = ref[k]

C9_Witness ==
    /\ JustApplied
    /\ Len(last.ops) >= 2
    /\ ViewOf(ApplyOps(last.kind, last.pre, last.ops))
          # ViewOf(ApplyOps(last.kind, last.pre, TakeOps_reversed(last.ops)))

\* C10: apply_pending leaves the queue empty, and a batch ending in Clear
\* leaves no id synced and none of the kind's entities alive, whatever was
\* upserted before it.
C10_ClearEmpties ==
    JustApplied =>
        /\ pending_operations[last.kind] = << >>
        /\ (last.ops # << >> /\ last.ops[Len(last.ops)].type = "Clear")
           => /\ entity_map[last.kind] = EmptyMap
              /\ LiveOfKind(last.kind) = {}
              /\ MapRange(last.pre.entity_map) \cap DOMAIN world = {}
              /\ MapRange(last.pre.entity_map) \subseteq last.despawned

C10_Witness ==
    /\ JustApplied
    /\ Len(last.ops) >= 2
    /\ last.ops[1].type = "Sync"
    /\ last.ops[Len(last.ops)].type = "Clear"
    /\ last.spawned # {}

\* The snapshot a frame's population produces from this frame's devices.
FrameInput ==
    FillInput(InputState_clear(prev_input), keyboard, mouse_buttons,
              cursor_position, gamepad_query)

\* C11: every read of the input state or of the picking events by a script,
\* on whichever thread, returns what the population of the current frame
\* produced once it had completed; none returns a cleared or part-filled
\* snapshot.
C11_ReadsCompletedFrame ==
    /\ bpc = "script" => /\ input_state = FrameInput
                         /\ picking_events = FillPicking(pointer_events)
    /\ last.op = "read_input" => last.value = input_state
    /\ (last.op = "drain_picking_events" /\ ~last.again)
       => last.value = picking_events

\* C12: the snapshot a frame's population leaves is made of this frame's
\* polled device state only: it is what the population gives on a new
\* InputState, so no value of an earlier frame is left in any field.
C12_SnapshotOverwritten ==
    last.op = "snapshot" =>
        input_state = FillInput(InputState_new, keyboard, mouse_buttons,
                                cursor_position, gamepad_query)

\* The key codes that were held when the previous frame was polled.
PrevPressed ==
    (keyboard.pressed \ keyboard.just_pressed) \cup keyboard.just_released

\* C13: in every frame's snapshot a key is just_pressed exactly when it is in
\* this frame's pressed set and was not in the previous frame's, and
\* just_released exactly when it is not in this frame's pressed set and was
\* in the previous frame's.
C13_JustPressedReleased ==
    last.op = "snapshot" =>
        \A n \in KeyNames(KeyCodes) :
            /\ n \in input_state.keys_just_pressed
               <=> (n \in KeyNames(keyboard.pressed) /\ n \notin KeyNames(PrevPressed))
            /\ n \in input_state.keys_just_released
               <=> (n \notin KeyNames(keyboard.pressed) /\ n \in KeyNames(PrevPressed))

\* A mouse position had been observed before this frame (every cursor
\* position maps to something other than the initial (0, 0)).
PositionObserved == prev_input.mouse_position # InputState_new.mouse_position

\* C14: in every frame's snapshot mouse_delta is this frame's mouse position
\* minus the previous frame's, and zero in the first frame with a position.
C14_MouseDelta ==
    last.op = "snapshot" =>
        input_state.mouse_delta =
            IF PositionObserved
            THEN << input_state.mouse_position[1] - prev_input.mouse_position[1],
                    input_state.mouse_position[2] - prev_input.mouse_position[2] >>
            ELSE << 0, 0 >>

C16_ArrivalOrder ==
    last.op = "snapshot" => picking_events = FillPicking_arrival(pointer_events)

\* The drain takes the values of the last setter calls and clears the
\* script-side flag; an apply writes the latched values to the camera and
\* clears the latch's flag in the same step.
CameraLatched ==
    /\ last.op = "merge" =>
          /\ ~CAMERA["main"].dirty
          /\ camera.dirty => /\ camera.position = CAMERA["main"].position
                             /\ camera.scale = CAMERA["main"].scale
    /\ (last.op = "camera" /\ last.dirty) =>
          /\ ~camera.dirty
          /\ camera_transform = [translation |-> camera.position,
                                 scale |-> camera.scale]

\* A latched camera update changes only by being applied.
CameraAppliedOnce ==
    (camera.dirty /\ camera' # camera) =>
        /\ ~camera'.dirty
        /\ camera_transform' = [translation |-> camera.position,
                                scale |-> camera.scale]

\* C17: the setter calls made before a drain coalesce into one camera update
\* with the values of the last call; that update is applied exactly once,
\* and the dirty flag is cleared in the step that reads the values.
C17_CameraCoalesces == [](CameraLatched) /\ [][CameraAppliedOnce]_vars

ExitOneWay ==
    /\ should_exit => should_exit'
    /\ \A c \in Ctx : SHOULD_STOP[c] => SHOULD_STOP'[c]
    /\ app_exit => app_exit'
    /\ (bpc = "tail" /\ bpc' = "done" /\ should_exit) => app_exit'

\* C18: the exit signal only ever goes from false to true, in the staging
\* flag and in the bridge state alike, and an exit check that runs while it
\* is true observes it.
C18_ExitOneWay == [][ExitOneWay]_vars

C18_Witness ==
    /\ should_exit
    /\ app_exit
    /\ bpc = "done"
    /\ SHOULD_STOP["main"]

\* C19: as soon as a call of stop has returned, on whichever thread, the
\* exit flag of the bridge state is true.
C19_StopImmediate == last.op = "stop" => should_exit

\* C20: when the loop ends after a frame in which exit was signalled, all
\* that the script staged has been applied: no entity operation is left
\* staged or queued, no camera update latched, no rumble command queued.
C20_StagedAppliedBeforeExit ==
    (app_exit /\ FrameEnd) =>
        /\ \A k \in Kinds : /\ pending_operations[k] = << >>
                            /\ PENDING["main"][k] = << >>
        /\ ~camera.dirty /\ ~CAMERA["main"].dirty
        /\ pending_gamepad_rumble = << >>
        /\ PENDING_GAMEPAD_RUMBLE["main"] = << >>

\* Rumble commands not yet issued: those in the threads' staging buffers and
\* those in the queue of the bridge state.
RumblePool ==
    Len(pending_gamepad_rumble)
    + SumOver([c \in Ctx |-> Len(PENDING_GAMEPAD_RUMBLE[c])], Ctx)

\* A step that sends rumble requests sends one request per command of the
\* bridge queue, in order, and removes exactly those commands.
RumbleIssuedOnce ==
    Len(rumble_requests') > Len(rumble_requests) =>
        /\ rumble_requests' = rumble_requests \o
               [i \in 1..Len(pending_gamepad_rumble) |->
                   RumbleRequest(pending_gamepad_rumble[i])]
        /\ pending_gamepad_rumble' = << >>
        /\ RumblePool - RumblePool' = Len(rumble_requests') - Len(rumble_requests)

\* C21: every staged rumble command becomes at most one device request and is
\* then discarded: a step that issues requests removes one command per request
\* from the commands waiting, and once a frame's rumble drain has run the
\* rumble queue of the bridge state is empty.
C21_RumbleOnce ==
    /\ [](bpc = "done" => pending_gamepad_rumble = << >>)
    /\ [][RumbleIssuedOnce]_vars

C21_Witness ==
    /\ bpc = "done"
    /\ Len(rumble_requests) = 2
    /\ rumble_requests[1].type = "Add"
    /\ rumble_requests[2].type = "Stop"
    /\ pending_gamepad_rumble = << >>
    /\ PENDING_GAMEPAD_RUMBLE["main"] = << >>

\* C22: the registered callback is invoked exactly once in every frame, inside
\* ruby_bridge_system, and the state lock is held by the engine for as long as
\* the invocation lasts.
C22_CallbackOncePerFrame ==
    /\ calls <= 1
    /\ FrameEnd => calls = 1
    /\ bpc = "script" =>
           /\ lock = "engine"
           /\ calls = 1
           /\ "bridge" \notin ran

C22_Witness ==
    /\ bpc = "script"
    /\ last.op = "stage"
    /\ lock = "engine"
    /\ calls = 1
    /\ applied["sprite"] # << >>

\* A mesh hash whose shape code is not one of the five shapes, or is not an
\* Integer.
Malformed(hash) ==
    \/ hash.shape_type.tag = "str"
    \/ hash.shape_type.tag = "int" /\ hash.shape_type.v \notin 0..4

\* C23: a malformed payload is refused at the staging call, which stages
\* nothing; no malformed value is replaced by a default.
C23_MalformedRejected ==
    (last.op = "sync_mesh" /\ Malformed(last.hash)) =>
        Len(PENDING[last.ctx]["mesh"]) = last.before

\* What `last` records for the operations of the script command surface.
ScriptOpNames ==
    {"stage", "sync_mesh", "set_camera", "get_camera", "queue_rumble", "stop",
     "read_input", "drain_picking_events"}

\* The entity store and the id maps across one step.
StoreUntouched == UNCHANGED << world, entity_map, nextEntity >>

\* C24: no operation of the script context changes the entity store or an
\* id-to-handle map; they change only in a step of apply_pending.
C24_ScriptLeavesStore ==
    [][/\ last'.op \in ScriptOpNames => StoreUntouched
       /\ ~StoreUntouched => last'.op = "apply"]_vars

C24_Witness ==
    /\ last.op = "stage"
    /\ last.ctx = "main"
    /\ entity_map["sprite"] # EmptyMap
    /\ PENDING["main"]["sprite"] # << >>
    /\ PENDING["main"]["sprite"][1].type = "Clear"

\* Applying `ops` to store s meets a handle that the id map records and the
\* World no longer has.
RECURSIVE MetMissing(_, _, _)
MetMissing(k, s, ops) ==
    IF ops = << >> THEN FALSE
    ELSE LET op == Head(ops)
             gone(id) == /\ id \in DOMAIN s.entity_map
                         /\ s.entity_map[id] \notin DOMAIN s.world
         IN  \/ op.type \in {"Sync", "Remove"} /\ gone(op.ruby_entity_id)
             \/ op.type = "Clear" /\ \E id \in DOMAIN s.entity_map : gone(id)
             \/ MetMissing(k, ApplyOp(k, s, op), Tail(ops))

\* C25: an apply_pending that meets a recorded handle missing from the store
\* ends in a panic; it does not complete.
C25_MissingHandlePanics ==
    (JustApplied /\ MetMissing(last.kind, last.pre, last.ops)) => bpc = "panic"

\* A step of the running engine other than the start of the next Update and
\* the return of RenderApp::run.
EngineStep ==
    /\ running
    /\ bpc' # bpc \/ ran' # ran
    /\ ~(bpc = "done" /\ bpc' = "start")
    /\ bpc' # "returned"

\* With the state mutex poisoned every step of the engine is a panic.
PoisonEndsLoop == (poisoned.state /\ EngineStep) => bpc' = "panic"

\* C26: on a poisoned bridge lock every acquisition by the engine side fails
\* fatally and the loop ends: no step of a frame is taken and no query is
\* answered with a default.
C26_PoisonFatal ==
    /\ []((last.op = "should_close" /\ last.poisoned) => last.panic)
    /\ [][PoisonEndsLoop]_vars

\* While the Ruby proc runs, every operation of the command surface can be
\* carried out, on either thread, and the closure can finish.
SurfaceEnabled ==
    /\ \A c \in Ctx :
          /\ ENABLED read_input(c)
          /\ ENABLED drain_picking_events(c)
          /\ ENABLED stop(c)
          /\ ENABLED get_camera(c)
          /\ ENABLED set_camera_position(c, "p1")
          /\ ENABLED set_camera_scale(c, 2)
          /\ Len(PENDING_GAMEPAD_RUMBLE[c]) < MaxOps =>
                 ENABLED queue_gamepad_rumble(c, CHOOSE a \in RumbleArgs : TRUE)
          /\ StagedCount < MaxOps =>
                 \A k \in Kinds :
                    /\ ENABLED sync_standalone(c, k, 1, CHOOSE p \in Payloads(k) : TRUE)
                    /\ ENABLED remove_standalone(c, k, 1)
                    /\ ENABLED clear_standalone(c, k)
    /\ ENABLED CallbackMerge

\* C27: no operation of the script command surface takes the state lock:
\* each leaves the lock as it is, and all of them can be carried out while
\* the engine holds the lock around the callback, which can then return.
C27_SurfaceLockFree ==
    /\ [](bpc = "script" => (lock = "engine" /\ SurfaceEnabled))
    /\ [][last'.op \in ScriptOpNames => lock' = lock]_vars

C27_Witness ==
    /\ bpc = "script"
    /\ lock = "engine"
    /\ last.op = "read_input"
    /\ SHOULD_STOP["main"]
    /\ CAMERA["worker"].dirty
    /\ PENDING_GAMEPAD_RUMBLE["worker"] # << >>

\* C28: a method of RubyRenderApp called from Ruby, the frame callback
\* included, never meets a conflicting borrow of a thread-local RefCell:
\* should_close?, initialized?, new and run complete without a panic.
LifeOps == {"should_close", "is_initialized", "new", "run"}

C28_NoDoubleBorrow == last.op \in LifeOps => ~last.panic

\* C29: the thread-local stop flag is never reset: once stop! was called on
\* a thread the flag stays set through the return of run and the drop of the
\* RenderApp, and a RenderApp made and run later on that thread has
\* should_exit set by its first callback, which ends its loop after that
\* frame.
StopFlagKept == \A c \in Ctx : SHOULD_STOP[c] => SHOULD_STOP'[c]

StopReachesBridge ==
    (running /\ SHOULD_STOP["main"] /\ bpc \in {"tail", "done"}) => should_exit

LaterAppStopsAtOnce ==
    (apps > 1 /\ running) =>
        /\ SHOULD_STOP["main"]
        /\ bpc = "done" => app_exit
        /\ ~ENABLED NewFrame

C29_StopFlagSticky ==
    /\ [](StopReachesBridge /\ LaterAppStopsAtOnce)
    /\ [][StopFlagKept]_vars

C29_Witness ==
    /\ apps = 2
    /\ running
    /\ bpc = "tail"
    /\ calls = 1
    /\ last.op = "merge"
    /\ SHOULD_STOP["main"]
    /\ should_exit

\* C30: a thread has at most one RenderApp: RenderApp.new while one exists
\* returns an error and leaves the existing one as it was; new succeeds
\* when there is none; when run has returned the state is gone, so that a
\* later new succeeds.
NewOutcome ==
    last.op = "new" =>
        /\ ~last.panic
        /\ last.error = (last.before = "Some")
        /\ RENDER_STATE[last.ctx] = "Some"

RunRemovesState ==
    bpc = "returned" =>
        /\ RENDER_STATE["main"] = "None"
        /\ apps < MaxApps => ENABLED new("main")

NewErrorKeepsState ==
    (last'.op = "new" /\ last'.before = "Some") =>
        UNCHANGED << lifeVars, bpc, ran, lock, syncVars, bridgeVars, outVars >>

C30_OneRenderApp ==
    /\ [](NewOutcome /\ RunRemovesState)
    /\ [][NewErrorKeepsState]_vars

====
